---- MODULE Spec2Model ----
(***************************************************************************)
(* Optimus Portfolio Analyzer: OptimusAnalyzer (src/src/index.ts) and      *)
(* AdvancedAnalyzer (src/unnamed/part_002).                                *)
(*                                                                         *)
(* Numbers.  The program computes with JavaScript doubles; the model uses  *)
(* fixed point.  Fractions (risk scores, percentages, confidences,         *)
(* exposure) are in thousandths (Scale = 1.0); native balances are in      *)
(* milli-SOL (Scale = 1 SOL = 1e9 lamports, so solBalance / 1e9 is the     *)
(* balance read in these units); fees are in micro-SOL.                    *)
(***************************************************************************)
EXTENDS Integers, Sequences, FiniteSets, TLC

\* ------------------------------------------------------------------ bounds

\* Largest number of token accounts a wallet holds.
MaxTokens == 11
\* Native balances are 0, 0.5 SOL, 1 SOL and k * 600 SOL for k in 1..MaxSolSteps.
MaxSolSteps == 2
\* Longest caller-supplied target allocation.
MaxTargetLen == 2
\* Longest list of trend signals in a Pyth response.
MaxTrends == 2

Scale == 10 ^ 3

\* ----------------------------------------------------------------- helpers

\* All sequences over S of length at most n.
SeqsUpTo(S, n) == UNION {[1..k -> S] : k \in 0..n}

\* A call's outcome: a returned value, or a thrown error.
Ok(v) == [status |-> "ok", value |-> v]
Throw(e) == [status |-> e]
NoResult == [status |-> "none"]

\* JavaScript's undefined as a returned value.
Undefined == [undefined |-> TRUE]

\* ------------------------------------------------------------------- state

VARIABLES
    chainTokenAccounts, \* token accounts the wallet owns on chain (their count)
    chainLamports,      \* the wallet's native balance on chain, in milli-SOL
    pc,                 \* position of the call in progress
    op,                 \* the operation called
    strategy,           \* its strategy argument
    targetAllocation,   \* the target allocation it plans against
    tokenAccounts,      \* local: tokenAccounts.value.length once fetched
    solBalance,         \* local: the balance getBalance resolved with
    result,             \* the call's outcome
    apTokenAccounts,    \* analyzePortfolio local: tokenAccounts.value.length
    apSolBalance,       \* analyzePortfolio local: solBalance, as fetched
    apRiskMetrics,      \* analyzePortfolio local: riskMetrics
    mpc,                \* getMarketInsights: position of the call in progress
    jupiterMarkets,     \* getMarketInsights: outcome of fetchJupiterMarkets
    pythPrices,         \* getMarketInsights: outcome of fetchPythPrices
    insights,           \* getMarketInsights: the value returned
    prevCall            \* the previous completed getMarketInsights call

portfolioVars == <<apTokenAccounts, apSolBalance, apRiskMetrics>>
walletVars == <<chainTokenAccounts, chainLamports, pc, op, strategy,
                targetAllocation, tokenAccounts, solBalance, result,
                apTokenAccounts, apSolBalance, apRiskMetrics>>
marketVars == <<mpc, jupiterMarkets, pythPrices, insights, prevCall>>
vars == <<chainTokenAccounts, chainLamports, pc, op, strategy,
          targetAllocation, tokenAccounts, solBalance, result,
          apTokenAccounts, apSolBalance, apRiskMetrics,
          mpc, jupiterMarkets, pythPrices, insights, prevCall>>

\* Native balances a wallet may hold, in milli-SOL.
SolBalances == {0, 500, 1000} \cup {k * 600 * Scale : k \in 1..MaxSolSteps}

\* ------------------------------------------------- AdvancedAnalyzer: risk

\* calculateConcentrationRisk with the >= 3 step moved to >= 4.
calculateConcentrationRisk_step4(n) ==
    IF n = 0 THEN 1000
    ELSE IF n >= 5 THEN 200
    ELSE IF n >= 4 THEN 400
    ELSE IF n >= 2 THEN 600
    ELSE 1000

calculateConcentrationRisk(n) ==
    IF n = 0 THEN 1000
    ELSE IF n >= 5 THEN 200
    ELSE IF n >= 3 THEN 400
    ELSE IF n >= 2 THEN 600
    ELSE 1000

estimateVolatility == 500

\* calculateDiversificationScore with the >= 10 step lost.
calculateDiversificationScore_no10(n) ==
    IF n = 0 THEN 0
    ELSE IF n >= 5 THEN 800
    ELSE IF n >= 3 THEN 600
    ELSE IF n >= 2 THEN 400
    ELSE 200

calculateDiversificationScore(n) ==
    IF n = 0 THEN 0
    ELSE IF n >= 10 THEN 1000
    ELSE IF n >= 5 THEN 800
    ELSE IF n >= 3 THEN 600
    ELSE IF n >= 2 THEN 400
    ELSE 200

\* The placeholder portfolio value, in whole value units.
getTotalPortfolioValue == 1000

calculateLiquidAssetsRatio == 1000

\* (solBalance / 1e9) / getTotalPortfolioValue, in thousandths; lamports is
\* in milli-SOL, so lamports / Scale is the balance in SOL.
solExposure(lamports) == (lamports * Scale) \div (Scale * getTotalPortfolioValue)

\* riskMetrics with a non-empty native balance counted as one more asset.
riskMetrics_countNative(n, lamports) ==
    LET assets == IF lamports > 0 THEN n + 1 ELSE n
    IN  [concentrationRisk    |-> calculateConcentrationRisk(assets),
         volatilityEstimate   |-> estimateVolatility,
         diversificationScore |-> calculateDiversificationScore(assets),
         solExposure          |-> solExposure(lamports),
         liquidAssetsRatio    |-> calculateLiquidAssetsRatio]

\* The object calculateRiskMetrics returns for the fetched accounts and balance.
riskMetrics(n, lamports) ==
    [concentrationRisk    |-> calculateConcentrationRisk(n),
     volatilityEstimate   |-> estimateVolatility,
     diversificationScore |-> calculateDiversificationScore(n),
     solExposure          |-> solExposure(lamports),
     liquidAssetsRatio    |-> calculateLiquidAssetsRatio]

\* --------------------------------------------- AdvancedAnalyzer: rebalance

\* Token names getCurrentAllocation gives the accounts: TOKEN_<idx>.
TokenName(idx) ==
    <<"TOKEN_0", "TOKEN_1", "TOKEN_2", "TOKEN_3", "TOKEN_4", "TOKEN_5",
      "TOKEN_6", "TOKEN_7", "TOKEN_8", "TOKEN_9", "TOKEN_10", "TOKEN_11",
      "TOKEN_12", "TOKEN_13", "TOKEN_14", "TOKEN_15">>[idx + 1]

\* getCurrentAllocation over n fetched accounts: equal shares 1 / n.
getCurrentAllocation(n) ==
    [i \in 1..n |-> [token |-> TokenName(i - 1), percentage |-> Scale \div n]]

tradeAmount == 100
tradeCost == 500

\* computeRebalancingTrades: one buy of target[0]; reading target[0].token of
\* an empty target throws a TypeError.
computeRebalancingTrades(current, target) ==
    IF Len(target) = 0
    THEN Throw("TypeError")
    ELSE Ok(<<[action |-> "buy", token |-> target[1].token,
               amount |-> tradeAmount, estimatedCost |-> tradeCost]>>)

RECURSIVE estimateTransactionCosts(_)
estimateTransactionCosts(trades) ==
    IF trades = <<>> THEN 0
    ELSE estimateTransactionCosts(SubSeq(trades, 1, Len(trades) - 1))
         + trades[Len(trades)].estimatedCost

estimateRiskReduction == 150

\* generateRebalancingRecommendations once getCurrentAllocation has resolved
\* with n accounts.
generateRebalancingRecommendations(n, target) ==
    LET current == getCurrentAllocation(n)
        recs == computeRebalancingTrades(current, target)
    IN  IF recs.status # "ok"
        THEN recs
        ELSE Ok([currentAllocation |-> current,
                 targetAllocation  |-> target,
                 recommendations   |-> recs.value,
                 estimatedCost     |-> estimateTransactionCosts(recs.value),
                 riskReduction     |-> estimateRiskReduction])

\* ------------------------------------------------ OptimusAnalyzer: strategy

\* Strategy names a caller may pass; "yolo" is not a strategy.
StrategyNames == {"conservative", "moderate", "aggressive", "yolo"}

getStrategyAllocation(s) ==
    CASE s = "conservative" ->
           <<[token |-> "USDC", percentage |-> 500],
             [token |-> "SOL", percentage |-> 300],
             [token |-> "other", percentage |-> 200]>>
      [] s = "aggressive" ->
           <<[token |-> "SOL", percentage |-> 300],
             [token |-> "growth_tokens", percentage |-> 500],
             [token |-> "yield_farming", percentage |-> 200]>>
      [] OTHER ->
           <<[token |-> "SOL", percentage |-> 350],
             [token |-> "USDC", percentage |-> 250],
             [token |-> "JLP", percentage |-> 200],
             [token |-> "other", percentage |-> 200]>>

\* The strategies table of getRecommendations; percentages are in percent.
strategies ==
    [conservative |->
        [description |-> "Focus on stablecoins and blue-chip tokens",
         allocations |-> <<[asset |-> "USDC", percentage |-> 50],
                           [asset |-> "SOL", percentage |-> 30],
                           [asset |-> "other", percentage |-> 20]>>],
     moderate |->
        [description |-> "Balanced mix of growth and stability",
         allocations |-> <<[asset |-> "SOL", percentage |-> 35],
                           [asset |-> "USDC", percentage |-> 25],
                           [asset |-> "JLP", percentage |-> 20],
                           [asset |-> "other", percentage |-> 20]>>],
     aggressive |->
        [description |-> "Focus on growth tokens and yield farming",
         allocations |-> <<[asset |-> "SOL", percentage |-> 30],
                           [asset |-> "growth_tokens", percentage |-> 50],
                           [asset |-> "yield_farming", percentage |-> 20]>>]]

\* strategies[strategy]: a missing key reads as undefined.
getRecommendations(s) ==
    IF s \in DOMAIN strategies THEN strategies[s] ELSE Undefined

\* Target allocations a caller may hand generateRebalancingRecommendations.
TargetEntries ==
    [token : {TokenName(0), TokenName(1)}, percentage : {400, 500, 600}]
CustomTargets == SeqsUpTo(TargetEntries, MaxTargetLen)

\* ------------------------------------------- AdvancedAnalyzer: market data

\* What a source fetch may resolve with.  A body may lack the field the
\* caller reads.
JupiterBodies ==
    { [opportunities |->
          <<[route |-> "SOL-USDC", apr |-> 12500, liquidity |-> 1000000,
             risk |-> "low"],
            [route |-> "JLP-USDC", apr |-> 24300, liquidity |-> 500000,
             risk |-> "medium"]>>],
      [error |-> "unavailable"] }

TrendSignals ==
    { [token |-> t, trend |-> k[1], confidence |-> k[2]] :
        t \in {"SOL", "USDC"},
        k \in {<<"bullish", 700>>, <<"bullish", 600>>, <<"stable", 900>>} }

PythBodies ==
    { [trends |-> ts, volatility |-> 450] :
        ts \in SeqsUpTo(TrendSignals, MaxTrends) }
    \cup { [volatility |-> 450] }

Pending == [kind |-> "pending"]
Rejected == [kind |-> "rejected"]
Resolved(b) == [kind |-> "resolved", body |-> b]

\* x.field || dflt, for a field that is absent or present.
FieldOr(x, field, dflt) == IF field \in DOMAIN x THEN x[field] ELSE dflt

\* generateSuggestedAllocations with the confidence test widened to >= 0.6.
generateSuggestedAllocations_ge(marketData, priceData) ==
    LET bullishLowRisk ==
            SelectSeq(priceData.trends,
                      LAMBDA t : t.trend = "bullish" /\ t.confidence >= 600)
    IN  [i \in 1..Len(bullishLowRisk) |->
            [token |-> bullishLowRisk[i].token, suggestedIncrease |-> 50]]

\* generateSuggestedAllocations with suggestions kept on the analyzer, not
\* started empty in each call: the previous call's entries stay in it.
generateSuggestedAllocations_kept(marketData, priceData) ==
    LET bullishLowRisk ==
            SelectSeq(priceData.trends,
                      LAMBDA t : t.trend = "bullish" /\ t.confidence > 600)
        kept == IF prevCall.kind = "call"
                THEN prevCall.insights.suggestedAllocations
                ELSE <<>>
    IN  kept \o [i \in 1..Len(bullishLowRisk) |->
                    [token |-> bullishLowRisk[i].token,
                     suggestedIncrease |-> 50]]

\* generateSuggestedAllocations: filter, then map, pushed onto an empty list.
generateSuggestedAllocations(marketData, priceData) ==
    LET bullishLowRisk ==
            SelectSeq(priceData.trends,
                      LAMBDA t : t.trend = "bullish" /\ t.confidence > 600)
    IN  <<>> \o [i \in 1..Len(bullishLowRisk) |->
                    [token |-> bullishLowRisk[i].token,
                     suggestedIncrease |-> 50]]

\* What the catch block of getMarketInsights returns.
insightsFallback ==
    [jupiterOpportunities |-> <<>>,
     pythPriceTrends      |-> <<>>,
     marketVolatility     |-> 500,
     suggestedAllocations |-> <<>>]

\* getMarketInsights once both fetches have resolved: the return statement;
\* priceData.trends.filter throws on a body without trends, and the catch
\* block returns the fallback.
insightsOf(jupiterBody, pythBody) ==
    IF "trends" \notin DOMAIN pythBody
    THEN insightsFallback
    ELSE [jupiterOpportunities |-> FieldOr(jupiterBody, "opportunities", <<>>),
          pythPriceTrends      |-> FieldOr(pythBody, "trends", <<>>),
          marketVolatility     |->
              IF FieldOr(pythBody, "volatility", 0) # 0
              THEN pythBody.volatility ELSE 500,
          suggestedAllocations |->
              generateSuggestedAllocations(jupiterBody, pythBody)]

\* getMarketInsights() is called: fetchJupiterMarkets is awaited.
GetMarketInsights ==
    /\ mpc = "idle"
    /\ mpc' = "jupiter"
    /\ UNCHANGED <<jupiterMarkets, pythPrices, insights, prevCall>>
    /\ UNCHANGED walletVars

\* fetchJupiterMarkets resolves: fetchPythPrices is awaited.
JupiterResolve ==
    /\ mpc = "jupiter"
    /\ \E b \in JupiterBodies : jupiterMarkets' = Resolved(b)
    /\ mpc' = "pyth"
    /\ UNCHANGED <<pythPrices, insights, prevCall>>
    /\ UNCHANGED walletVars

\* fetchJupiterMarkets rejects: the catch block returns; Pyth is never asked.
JupiterReject ==
    /\ mpc = "jupiter"
    /\ jupiterMarkets' = Rejected
    /\ insights' = insightsFallback
    /\ mpc' = "done"
    /\ UNCHANGED <<pythPrices, prevCall>>
    /\ UNCHANGED walletVars

\* fetchPythPrices resolves with one of bodies: the result is assembled and
\* returned.
PythResolveFrom(bodies) ==
    /\ mpc = "pyth"
    /\ \E b \in bodies :
          /\ pythPrices' = Resolved(b)
          /\ insights' = insightsOf(jupiterMarkets.body, b)
    /\ mpc' = "done"
    /\ UNCHANGED <<jupiterMarkets, prevCall>>
    /\ UNCHANGED walletVars

PythResolve == PythResolveFrom(PythBodies)

\* fetchJupiterMarkets never settles: the call stays at its await.
JupiterNeverResponds ==
    /\ mpc = "jupiter"
    /\ mpc' = "jupiter_hung"
    /\ UNCHANGED <<jupiterMarkets, pythPrices, insights, prevCall>>
    /\ UNCHANGED walletVars

\* fetchPythPrices never settles: the call stays at its await.
PythNeverResponds ==
    /\ mpc = "pyth"
    /\ mpc' = "pyth_hung"
    /\ UNCHANGED <<jupiterMarkets, pythPrices, insights, prevCall>>
    /\ UNCHANGED walletVars

\* fetchPythPrices rejects: the catch block returns.
PythReject ==
    /\ mpc = "pyth"
    /\ pythPrices' = Rejected
    /\ insights' = insightsFallback
    /\ mpc' = "done"
    /\ UNCHANGED <<jupiterMarkets, prevCall>>
    /\ UNCHANGED walletVars

\* The caller takes the insights; the call is remembered as the previous one.
MarketReturn ==
    /\ mpc = "done"
    /\ prevCall' = [kind |-> "call", jupiterMarkets |-> jupiterMarkets,
                    pythPrices |-> pythPrices, insights |-> insights]
    /\ jupiterMarkets' = Pending
    /\ pythPrices' = Pending
    /\ insights' = NoResult
    /\ mpc' = "idle"
    /\ UNCHANGED walletVars

\* --------------------------------------------------------- wallet requests

\* The chain moves on: the wallet's accounts or balance change.
ChainUpdate ==
    /\ \E n \in 0..MaxTokens, b \in SolBalances :
          /\ <<n, b>> # <<chainTokenAccounts, chainLamports>>
          /\ chainTokenAccounts' = n
          /\ chainLamports' = b
    /\ UNCHANGED <<pc, op, strategy, targetAllocation, tokenAccounts,
                   solBalance, result>>
    /\ UNCHANGED marketVars
    /\ UNCHANGED portfolioVars

\* getRiskAnalysis(walletAddress): calculateRiskMetrics up to its first await.
GetRiskAnalysis ==
    /\ pc = "idle"
    /\ op' = "getRiskAnalysis"
    /\ pc' = "risk_tokens"
    /\ UNCHANGED <<chainTokenAccounts, chainLamports, strategy,
                   targetAllocation, tokenAccounts, solBalance, result>>
    /\ UNCHANGED marketVars
    /\ UNCHANGED portfolioVars

\* calculateRiskMetrics: getTokenAccountsByOwner resolves.
RiskTokenAccountsResolve ==
    /\ pc = "risk_tokens"
    /\ tokenAccounts' = chainTokenAccounts
    /\ pc' = "risk_balance"
    /\ UNCHANGED <<chainTokenAccounts, chainLamports, op, strategy,
                   targetAllocation, solBalance, result>>
    /\ UNCHANGED marketVars
    /\ UNCHANGED portfolioVars

\* calculateRiskMetrics: getBalance resolves and the metrics are returned.
RiskBalanceResolve ==
    /\ pc = "risk_balance"
    /\ solBalance' = chainLamports
    /\ result' = Ok(riskMetrics(tokenAccounts, chainLamports))
    /\ pc' = "done"
    /\ UNCHANGED <<chainTokenAccounts, chainLamports, op, strategy,
                   targetAllocation, tokenAccounts>>
    /\ UNCHANGED marketVars
    /\ UNCHANGED portfolioVars

\* getPortfolioRebalancingRecommendations(walletAddress, strategy), up to the
\* await in getCurrentAllocation.
GetPortfolioRebalancingRecommendations ==
    /\ pc = "idle"
    /\ \E s \in StrategyNames :
          /\ strategy' = s
          /\ targetAllocation' = getStrategyAllocation(s)
    /\ op' = "getPortfolioRebalancingRecommendations"
    /\ pc' = "rebalance_tokens"
    /\ UNCHANGED <<chainTokenAccounts, chainLamports, tokenAccounts,
                   solBalance, result>>
    /\ UNCHANGED marketVars
    /\ UNCHANGED portfolioVars

\* AdvancedAnalyzer.generateRebalancingRecommendations(walletAddress, target)
\* called with the caller's own target, up to the await in getCurrentAllocation.
GenerateRebalancingRecommendations ==
    /\ pc = "idle"
    /\ \E t \in CustomTargets : targetAllocation' = t
    /\ op' = "generateRebalancingRecommendations"
    /\ pc' = "rebalance_tokens"
    /\ UNCHANGED <<chainTokenAccounts, chainLamports, strategy, tokenAccounts,
                   solBalance, result>>
    /\ UNCHANGED marketVars
    /\ UNCHANGED portfolioVars

\* getCurrentAllocation: getTokenAccountsByOwner resolves; the plan is built
\* and returned, or computeRebalancingTrades throws.
RebalanceTokenAccountsResolve ==
    /\ pc = "rebalance_tokens"
    /\ tokenAccounts' = chainTokenAccounts
    /\ result' = generateRebalancingRecommendations(chainTokenAccounts,
                                                    targetAllocation)
    /\ pc' = "done"
    /\ UNCHANGED <<chainTokenAccounts, chainLamports, op, strategy,
                   targetAllocation, solBalance>>
    /\ UNCHANGED marketVars
    /\ UNCHANGED portfolioVars

\* getRecommendations(strategy): no await, returns at once.
GetRecommendations ==
    /\ pc = "idle"
    /\ \E s \in StrategyNames :
          /\ strategy' = s
          /\ result' = Ok(getRecommendations(s))
    /\ op' = "getRecommendations"
    /\ pc' = "done"
    /\ UNCHANGED <<chainTokenAccounts, chainLamports, targetAllocation,
                   tokenAccounts, solBalance>>
    /\ UNCHANGED marketVars
    /\ UNCHANGED portfolioVars

\* The caller takes the outcome; the call's frame is gone.
Return ==
    /\ pc = "done"
    /\ pc' = "idle"
    /\ op' = "none"
    /\ strategy' = "none"
    /\ targetAllocation' = <<>>
    /\ tokenAccounts' = 0
    /\ solBalance' = 0
    /\ result' = NoResult
    /\ UNCHANGED <<chainTokenAccounts, chainLamports>>
    /\ UNCHANGED marketVars
    /\ UNCHANGED portfolioVars

InitWallet ==
    /\ chainTokenAccounts = 0
    /\ chainLamports = 0
    /\ pc = "idle"
    /\ op = "none"
    /\ strategy = "none"
    /\ targetAllocation = <<>>
    /\ tokenAccounts = 0
    /\ solBalance = 0
    /\ result = NoResult
    /\ apTokenAccounts = 0
    /\ apSolBalance = 0
    /\ apRiskMetrics = NoResult

InitMarket ==
    /\ mpc = "idle"
    /\ jupiterMarkets = Pending
    /\ pythPrices = Pending
    /\ insights = NoResult
    /\ prevCall = [kind |-> "none"]

Init == InitWallet /\ InitMarket

Next ==
    \/ ChainUpdate
    \/ GetRiskAnalysis
    \/ RiskTokenAccountsResolve
    \/ RiskBalanceResolve
    \/ GetPortfolioRebalancingRecommendations
    \/ GenerateRebalancingRecommendations
    \/ RebalanceTokenAccountsResolve
    \/ GetRecommendations
    \/ Return

Spec == Init /\ [][Next]_vars

NextMarket ==
    \/ GetMarketInsights
    \/ JupiterResolve
    \/ JupiterReject
    \/ PythResolve
    \/ PythReject
    \/ JupiterNeverResponds
    \/ PythNeverResponds
    \/ MarketReturn

SpecMarket == Init /\ [][NextMarket]_vars

\* ----------------------------------------- OptimusAnalyzer: analyzePortfolio

\* tokenBalances: one entry per fetched token account.
tokenBalancesOf(n) ==
    [i \in 1..n |-> [mint |-> i, amount |-> "calculated_amount"]]

estimateRiskLevel(balance, tokens) ==
    IF Len(tokens) = 0 THEN "LOW"
    ELSE IF Len(tokens) <= 2 THEN "MEDIUM"
    ELSE "LOW"

calculateDiversification(tokens) == Len(tokens)

\* generateRecommendations with the rules chained by else-if: only the first
\* matching rule fires.
generateRecommendations_elseif(balance, tokens, metrics) ==
    IF balance < Scale
    THEN <<"Consider increasing SOL balance for transaction fees">>
    ELSE IF Len(tokens) < 3
    THEN <<"Diversify portfolio with additional assets">>
    ELSE IF metrics.concentrationRisk > 700
    THEN <<"High concentration risk detected - consider diversifying into more token types">>
    ELSE IF metrics.diversificationScore < 500
    THEN <<"Portfolio diversification could be improved">>
    ELSE IF metrics.solExposure > 700
    THEN <<"High SOL exposure - consider diversifying into other assets">>
    ELSE <<>>

\* generateRecommendations: five independent rules, pushed in this order.
\* riskMetrics is always an object, so `riskMetrics &&` is always true.
generateRecommendations(balance, tokens, metrics) ==
    (IF balance < Scale
     THEN <<"Consider increasing SOL balance for transaction fees">>
     ELSE <<>>)
    \o (IF Len(tokens) < 3
        THEN <<"Diversify portfolio with additional assets">>
        ELSE <<>>)
    \o (IF metrics.concentrationRisk > 700
        THEN <<"High concentration risk detected - consider diversifying into more token types">>
        ELSE <<>>)
    \o (IF metrics.diversificationScore < 500
        THEN <<"Portfolio diversification could be improved">>
        ELSE <<>>)
    \o (IF metrics.solExposure > 700
        THEN <<"High SOL exposure - consider diversifying into other assets">>
        ELSE <<>>)

generateAnalysis(balance, tokens, metrics) ==
    [riskLevel            |-> estimateRiskLevel(balance, tokens),
     diversification      |-> calculateDiversification(tokens),
     concentrationRisk    |-> metrics.concentrationRisk,
     volatilityEstimate   |-> metrics.volatilityEstimate,
     diversificationScore |-> metrics.diversificationScore,
     recommendations      |-> generateRecommendations(balance, tokens, metrics)]

\* The object analyzePortfolio returns (its wallet and timestamp left out).
portfolioOf(lamports, n, metrics, marketInsights) ==
    [solBalance     |-> lamports,
     tokens         |-> tokenBalancesOf(n),
     riskMetrics    |-> metrics,
     marketInsights |-> marketInsights,
     analysis       |-> generateAnalysis(lamports, tokenBalancesOf(n), metrics)]

\* What fetchPythPrices resolves with as written.
fetchPythPrices ==
    [trends |-> <<[token |-> "SOL", trend |-> "bullish", confidence |-> 700],
                  [token |-> "USDC", trend |-> "stable", confidence |-> 900]>>,
     volatility |-> 450]

\* analyzePortfolio(walletAddress) is called: getTokenAccountsByOwner is
\* awaited.
AnalyzePortfolio ==
    /\ pc = "idle"
    /\ op' = "analyzePortfolio"
    /\ pc' = "portfolio_tokens"
    /\ UNCHANGED <<chainTokenAccounts, chainLamports, strategy,
                   targetAllocation, tokenAccounts, solBalance, result>>
    /\ UNCHANGED marketVars
    /\ UNCHANGED portfolioVars

\* analyzePortfolio: getTokenAccountsByOwner resolves; getBalance is awaited.
PortfolioTokenAccountsResolve ==
    /\ pc = "portfolio_tokens"
    /\ apTokenAccounts' = chainTokenAccounts
    /\ pc' = "portfolio_balance"
    /\ UNCHANGED <<chainTokenAccounts, chainLamports, op, strategy,
                   targetAllocation, tokenAccounts, solBalance, result,
                   apSolBalance, apRiskMetrics>>
    /\ UNCHANGED marketVars

\* analyzePortfolio: getBalance resolves; calculateRiskMetrics is called and
\* awaits its own getTokenAccountsByOwner.
PortfolioBalanceResolve ==
    /\ pc = "portfolio_balance"
    /\ apSolBalance' = chainLamports
    /\ pc' = "portfolio_risk_tokens"
    /\ UNCHANGED <<chainTokenAccounts, chainLamports, op, strategy,
                   targetAllocation, tokenAccounts, solBalance, result,
                   apTokenAccounts, apRiskMetrics>>
    /\ UNCHANGED marketVars

\* calculateRiskMetrics within analyzePortfolio: getTokenAccountsByOwner
\* resolves.
PortfolioRiskTokenAccountsResolve ==
    /\ pc = "portfolio_risk_tokens"
    /\ tokenAccounts' = chainTokenAccounts
    /\ pc' = "portfolio_risk_balance"
    /\ UNCHANGED <<chainTokenAccounts, chainLamports, op, strategy,
                   targetAllocation, solBalance, result>>
    /\ UNCHANGED marketVars
    /\ UNCHANGED portfolioVars

\* calculateRiskMetrics within analyzePortfolio: getBalance resolves, the
\* metrics are returned; getMarketInsights is called and awaits
\* fetchJupiterMarkets.
PortfolioRiskBalanceResolve ==
    /\ pc = "portfolio_risk_balance"
    /\ solBalance' = chainLamports
    /\ apRiskMetrics' = riskMetrics(tokenAccounts, chainLamports)
    /\ pc' = "portfolio_insights"
    /\ mpc' = "jupiter"
    /\ UNCHANGED <<chainTokenAccounts, chainLamports, op, strategy,
                   targetAllocation, tokenAccounts, result,
                   apTokenAccounts, apSolBalance>>
    /\ UNCHANGED <<jupiterMarkets, pythPrices, insights, prevCall>>

\* getMarketInsights returns within analyzePortfolio: the result object is
\* built and returned.
PortfolioInsightsReturn ==
    /\ pc = "portfolio_insights"
    /\ mpc = "done"
    /\ result' = Ok(portfolioOf(apSolBalance, apTokenAccounts, apRiskMetrics,
                                insights))
    /\ pc' = "done"
    /\ jupiterMarkets' = Pending
    /\ pythPrices' = Pending
    /\ insights' = NoResult
    /\ mpc' = "idle"
    /\ UNCHANGED <<chainTokenAccounts, chainLamports, op, strategy,
                   targetAllocation, tokenAccounts, solBalance, prevCall>>
    /\ UNCHANGED portfolioVars

\* The caller takes the portfolio; the call's frame is gone.
PortfolioReturn ==
    /\ pc = "done"
    /\ op = "analyzePortfolio"
    /\ pc' = "idle"
    /\ op' = "none"
    /\ tokenAccounts' = 0
    /\ solBalance' = 0
    /\ result' = NoResult
    /\ apTokenAccounts' = 0
    /\ apSolBalance' = 0
    /\ apRiskMetrics' = NoResult
    /\ UNCHANGED <<chainTokenAccounts, chainLamports, strategy,
                   targetAllocation>>
    /\ UNCHANGED marketVars

\* The chain moves on between calls or while a read of it is awaited (a
\* change at any other moment is one no call observes).
PortfolioChainUpdate ==
    /\ pc \in {"idle", "portfolio_tokens", "portfolio_balance",
               "portfolio_risk_tokens", "portfolio_risk_balance"}
    /\ ChainUpdate

NextPortfolio ==
    \/ PortfolioChainUpdate
    \/ AnalyzePortfolio
    \/ PortfolioTokenAccountsResolve
    \/ PortfolioBalanceResolve
    \/ PortfolioRiskTokenAccountsResolve
    \/ PortfolioRiskBalanceResolve
    \/ JupiterResolve
    \/ JupiterReject
    \/ PythResolveFrom({fetchPythPrices})
    \/ PythReject
    \/ JupiterNeverResponds
    \/ PythNeverResponds
    \/ PortfolioInsightsReturn
    \/ PortfolioReturn

SpecPortfolio == Init /\ [][NextPortfolio]_vars

\* ------------------------------------------------------- claims: C1 - C6, C10

RiskDone == pc = "done" /\ op = "getRiskAnalysis"

RebalanceDone ==
    /\ pc = "done"
    /\ op \in {"getPortfolioRebalancingRecommendations",
               "generateRebalancingRecommendations"}

\* C1: every concentrationRisk that calculateRiskMetrics returns is the step
\* value of the number N of token accounts it fetched: 1.0 for N = 0 and
\* N = 1, 0.6 for N = 2, 0.4 for N in 3..4, 0.2 for N >= 5; it lies in [0,1]
\* and no smaller count scores a lower risk (non-increasing in N).
C1_ConcentrationRiskSteps ==
    RiskDone =>
        LET n == tokenAccounts
            r == result.value.concentrationRisk
        IN  /\ (n = 0 => r = Scale)
            /\ (n = 1 => r = Scale)
            /\ (n = 2 => r = 600)
            /\ (n \in 3..4 => r = 400)
            /\ (n >= 5 => r = 200)
            /\ 0 <= r /\ r <= Scale
            /\ \A m \in 0..n : calculateConcentrationRisk(m) >= r

\* A risk analysis of a wallet with three token accounts returned 0.4.
C1_Witness ==
    /\ RiskDone
    /\ tokenAccounts = 3
    /\ result.value.concentrationRisk = 400

\* C2: every diversificationScore that calculateRiskMetrics returns is the
\* step value of the number N of token accounts it fetched: 0 for N = 0, 0.2
\* for N = 1, 0.4 for N = 2, 0.6 for N in 3..4, 0.8 for N in 5..9, 1.0 for
\* N >= 10; it lies in [0,1] and no smaller count scores higher
\* (non-decreasing in N).
C2_DiversificationScoreSteps ==
    RiskDone =>
        LET n == tokenAccounts
            d == result.value.diversificationScore
        IN  /\ (n = 0 => d = 0)
            /\ (n = 1 => d = 200)
            /\ (n = 2 => d = 400)
            /\ (n \in 3..4 => d = 600)
            /\ (n \in 5..9 => d = 800)
            /\ (n >= 10 => d = Scale)
            /\ 0 <= d /\ d <= Scale
            /\ \A m \in 0..n : calculateDiversificationScore(m) <= d

\* A risk analysis of a wallet with ten token accounts returned 1.0.
C2_Witness ==
    /\ RiskDone
    /\ tokenAccounts = 10
    /\ result.value.diversificationScore = Scale

\* C3: the solExposure that calculateRiskMetrics returns lies in [0,1],
\* whatever the wallet's native balance.
C3_SolExposureInUnitInterval ==
    RiskDone =>
        /\ 0 <= result.value.solExposure
        /\ result.value.solExposure <= Scale

\* C4: a plan whose target allocation equals the wallet's current allocation
\* has no trades and a total estimated cost of zero.  (Stated for a wallet
\* that holds token accounts; the empty allocation is C10's case.)
C4_CurrentEqualsTargetNoTrades ==
    (/\ RebalanceDone
     /\ tokenAccounts > 0
     /\ getCurrentAllocation(tokenAccounts) = targetAllocation) =>
        /\ result.status = "ok"
        /\ result.value.recommendations = <<>>
        /\ result.value.estimatedCost = 0

RECURSIVE SumPercentages(_)
SumPercentages(alloc) ==
    IF alloc = <<>> THEN 0
    ELSE SumPercentages(SubSeq(alloc, 1, Len(alloc) - 1))
         + alloc[Len(alloc)].percentage

\* C5: generateRebalancingRecommendations refuses a target allocation whose
\* percentages do not sum to 1.0: the call ends in InvalidTarget, with no
\* plan.  (Percentages are whole thousandths, so a sum within 1e-6 of 1.0 is
\* a sum of exactly Scale.  The empty target is C10's case.)
C5_InvalidTargetRefused ==
    (/\ RebalanceDone
     /\ targetAllocation # <<>>
     /\ SumPercentages(targetAllocation) # Scale) =>
        result.status = "InvalidTarget"

\* The moderate allocation, as shares in thousandths.
C6_ModerateShares ==
    {<<"SOL", 350>>, <<"USDC", 250>>, <<"JLP", 200>>, <<"other", 200>>}

\* C6: a strategy name that is neither conservative nor aggressive (moderate,
\* or an unknown name) resolves to the moderate allocation {SOL 35%, USDC
\* 25%, JLP 20%, other 20%} in getPortfolioRebalancingRecommendations and in
\* getRecommendations alike.
C6_UnknownStrategyIsModerate ==
    (pc = "done" /\ strategy \notin {"conservative", "aggressive"}) =>
        /\ op = "getPortfolioRebalancingRecommendations" =>
              {<<targetAllocation[i].token, targetAllocation[i].percentage>> :
                  i \in DOMAIN targetAllocation} = C6_ModerateShares
        /\ op = "getRecommendations" =>
              /\ result.status = "ok"
              /\ "allocations" \in DOMAIN result.value
              /\ LET a == result.value.allocations
                 IN  {<<a[i].asset, a[i].percentage * (Scale \div 100)>> :
                         i \in DOMAIN a} = C6_ModerateShares

\* C10: a plan against an empty target allocation is returned, not thrown,
\* and has no trades and a total estimated cost of zero.
C10_EmptyTargetEmptyPlan ==
    (RebalanceDone /\ targetAllocation = <<>>) =>
        /\ result.status = "ok"
        /\ result.value.recommendations = <<>>
        /\ result.value.estimatedCost = 0

\* ----------------------------------------------------------- claims: C7 - C9

\* C7: when exactly one of the two market sources fails, getMarketInsights
\* returns the live source's signals unchanged, no signals for the failed
\* source, and marks the failed source unavailable.  (Stated for Jupiter
\* live with opportunities and Pyth failing: when Jupiter fails the call
\* returns before Pyth is asked, so no state shows a live Pyth beside a
\* failed Jupiter.)
C7_PartialFailureKeepsLiveSource ==
    (/\ mpc = "done"
     /\ jupiterMarkets.kind = "resolved"
     /\ "opportunities" \in DOMAIN jupiterMarkets.body
     /\ pythPrices.kind = "rejected") =>
        /\ insights.jupiterOpportunities = jupiterMarkets.body.opportunities
        /\ insights.pythPriceTrends = <<>>
        /\ "pythAvailable" \in DOMAIN insights
        /\ insights.pythAvailable = FALSE

\* A call has returned insights built from a Pyth response with trends.
InsightsFromTrends ==
    /\ mpc = "done"
    /\ jupiterMarkets.kind = "resolved"
    /\ pythPrices.kind = "resolved"
    /\ "trends" \in DOMAIN pythPrices.body

\* C8: suggestedAllocations holds one entry {token, suggestedIncrease: 0.05}
\* for each trend signal that is bullish with confidence above 0.6, in the
\* order of the input trends, and nothing else: the k-th qualifying signal
\* gives the k-th entry.
C8_SuggestedAllocationsAreBullishTrends ==
    InsightsFromTrends =>
        LET ts == pythPrices.body.trends
            out == insights.suggestedAllocations
            Q == {i \in DOMAIN ts :
                     ts[i].trend = "bullish" /\ ts[i].confidence > 600}
        IN  /\ Len(out) = Cardinality(Q)
            /\ \A i \in Q :
                  out[Cardinality({j \in Q : j <= i})] =
                      [token |-> ts[i].token, suggestedIncrease |-> 50]

\* A bullish signal at exactly 0.6 ahead of one at 0.7: only the second is
\* suggested.
C8_Witness ==
    /\ InsightsFromTrends
    /\ pythPrices.body.trends =
          <<[token |-> "USDC", trend |-> "bullish", confidence |-> 600],
            [token |-> "SOL", trend |-> "bullish", confidence |-> 700]>>
    /\ insights.suggestedAllocations =
          <<[token |-> "SOL", suggestedIncrease |-> 50]>>

RECURSIVE ShareOf(_, _)
ShareOf(alloc, asset) ==
    IF alloc = <<>> THEN 0
    ELSE ShareOf(SubSeq(alloc, 1, Len(alloc) - 1), asset)
         + (IF alloc[Len(alloc)].token = asset
            THEN alloc[Len(alloc)].percentage ELSE 0)

\* C11: in a returned plan, every asset of the current or the target
\* allocation is traded by the sign of (target share - current share): a buy
\* and no sell when the target share is larger (so for an asset only in the
\* target), a sell and no buy when it is smaller (so for an asset only in
\* the current allocation).
C11_TradesFollowDeltaSign ==
    (RebalanceDone /\ result.status = "ok") =>
        LET current == result.value.currentAllocation
            target == result.value.targetAllocation
            trades == result.value.recommendations
            assets == {current[i].token : i \in DOMAIN current}
                      \cup {target[i].token : i \in DOMAIN target}
            Trades(act, a) ==
                \E i \in DOMAIN trades :
                    trades[i].action = act /\ trades[i].token = a
        IN  \A a \in assets :
               /\ ShareOf(target, a) > ShareOf(current, a) =>
                     Trades("buy", a) /\ ~Trades("sell", a)
               /\ ShareOf(target, a) < ShareOf(current, a) =>
                     Trades("sell", a) /\ ~Trades("buy", a)

\* C14 as claimed: the count scored by calculateRiskMetrics includes the
\* native position, so a wallet with a native balance and N token accounts
\* is scored as N + 1 assets (one token: 0.6 and 0.4).
C14_CountIncludesNative ==
    (RiskDone /\ solBalance > 0) =>
        /\ result.value.concentrationRisk =
               calculateConcentrationRisk(tokenAccounts + 1)
        /\ result.value.diversificationScore =
               calculateDiversificationScore(tokenAccounts + 1)

\* C14 as amended: the count scored by calculateRiskMetrics is the number of
\* token accounts alone, whatever the native balance; a wallet with a native
\* balance and exactly one token account is scored with N = 1
\* (concentrationRisk 1.0, diversificationScore 0.2).
C14_CountIsTokenAccountsOnly ==
    RiskDone =>
        /\ result.value.concentrationRisk =
               calculateConcentrationRisk(tokenAccounts)
        /\ result.value.diversificationScore =
               calculateDiversificationScore(tokenAccounts)
        /\ (solBalance > 0 /\ tokenAccounts = 1) =>
              /\ result.value.concentrationRisk = Scale
              /\ result.value.diversificationScore = 200

\* A wallet with a native balance and one token account was scored 1.0, 0.2.
C14_Witness ==
    /\ RiskDone
    /\ solBalance > 0
    /\ tokenAccounts = 1
    /\ result.value.concentrationRisk = Scale
    /\ result.value.diversificationScore = 200

\* ---------------------------------------------------- claims: C12, C13, C15

PortfolioDone == pc = "done" /\ op = "analyzePortfolio"

\* The advisory rules, in their fixed order.
C12_Rules ==
    <<"Consider increasing SOL balance for transaction fees",
      "Diversify portfolio with additional assets",
      "High concentration risk detected - consider diversifying into more token types",
      "Portfolio diversification could be improved",
      "High SOL exposure - consider diversifying into other assets">>

\* C12: the recommendations of an analysis are the sub-list of the fixed
\* sequence [native balance < 1, token count < 3, concentrationRisk > 0.7,
\* diversificationScore < 0.5, native exposure > 0.7] made of exactly the
\* rules whose condition holds: the k-th matching rule gives the k-th entry.
C12_AdvisoryIsOrderedSublist ==
    PortfolioDone =>
        LET v == result.value
            out == v.analysis.recommendations
            holds == <<v.solBalance < Scale,
                       Len(v.tokens) < 3,
                       v.riskMetrics.concentrationRisk > 700,
                       v.riskMetrics.diversificationScore < 500,
                       v.riskMetrics.solExposure > 700>>
            Q == {i \in DOMAIN holds : holds[i]}
        IN  /\ Len(out) = Cardinality(Q)
            /\ \A i \in Q : out[Cardinality({j \in Q : j <= i})] = C12_Rules[i]

\* Two token accounts and 1200 SOL: rules 2, 4 and 5 fire, in that order, and
\* rules 1 and 3 do not.
C12_Witness ==
    /\ PortfolioDone
    /\ result.value.solBalance = 1200 * Scale
    /\ Len(result.value.tokens) = 2
    /\ result.value.analysis.recommendations =
          <<C12_Rules[2], C12_Rules[4], C12_Rules[5]>>

\* C13: a call of getMarketInsights that awaits a source which never
\* responds can still take a step (the deadline expiring and the fetch being
\* abandoned), so that it goes on to return.
C13_HungFetchIsAbandoned ==
    mpc \in {"jupiter_hung", "pyth_hung"} => ENABLED NextMarket

\* C15: in every result of analyzePortfolio the risk metrics agree with the
\* holdings the same result reports: the analysis's diversificationScore and
\* concentrationRisk are the step values of its token count
\* (analysis.diversification = tokens.length), and riskMetrics.solExposure
\* is the exposure of the reported solBalance.
C15_MetricsMatchReportedHoldings ==
    PortfolioDone =>
        LET v == result.value
        IN  /\ v.analysis.diversification = Len(v.tokens)
            /\ v.analysis.diversificationScore =
                   calculateDiversificationScore(v.analysis.diversification)
            /\ v.analysis.concentrationRisk =
                   calculateConcentrationRisk(v.analysis.diversification)
            /\ v.riskMetrics.solExposure = solExposure(v.solBalance)

====
